---- MODULE Spec2Model ----
(***************************************************************************)
(* A model of count-md's counting engine (src/src/lib.rs).                 *)
(*                                                                         *)
(* count_with_options drains the Markdown parser's event stream once,      *)
(* keeps a State of open regions and a running count, and decides event by *)
(* event whether the event's words are added.  A text is represented by    *)
(* the number of words unicode_words() finds in it, an HTML blob by the    *)
(* sequence of items xmlparser's Tokenizer yields for it.  The parser is   *)
(* the environment: it hands the pass one event at a time.                 *)
(***************************************************************************)
EXTENDS Integers, Sequences, FiniteSets, TLC

VARIABLES
    options,          \* options[p]: the Options value pass p was called with
    state,            \* state[p]: the State of pass p
    count,            \* count[p]: the running total of pass p
    pc,               \* pc[p]: "iter" (in the for loop), "done", "panicked"
    event,            \* event[p]: the event pass p handled last
    open,             \* open[p]: blockquotes the parser has opened and not closed
                      \* (in SpecNest: footnote definitions)
    raw,              \* raw[p]: words of the raw text the parser has read, where
                      \* a specification follows the raw text (SpecPlain)
    acc,              \* main: the (sum, pairs) accumulators of fold and reduce
    args,             \* main: the Args that Args::parse() returned
    res,              \* main: the frame of Paths::resolve and output_buffer
    disk              \* the file system at the output path

vars == <<options, state, count, pc, event, open, raw, acc, args, res, disk>>

\* what main keeps beside the passes
cli == <<args, res, disk>>

----------------------------------------------------------------------------
(* Bounds of the model *)

MaxWords == 2
MaxCount == 2
MaxDepth == 1
MaxBlob == 2
MaxOverflow == 1
MaxFiles == 2         \* input files named on the command line

----------------------------------------------------------------------------
(* bitflags! Options: u16 *)

IncludeInlineCode == 1
IncludeBlockCode == 4
IncludeTables == 8
IncludeFootnotes == 16
IncludeBlockHtml == 32
IncludeBlockquotes == 64
IncludeMetadata == 128
IncludeHeadings == 256

Flags ==
    { IncludeInlineCode, IncludeBlockCode, IncludeTables, IncludeFootnotes,
      IncludeBlockHtml, IncludeBlockquotes, IncludeMetadata, IncludeHeadings }

RECURSIVE BitAnd(_, _)
BitAnd(a, b) ==
    IF a = 0 \/ b = 0
    THEN 0
    ELSE (a % 2) * (b % 2) + 2 * BitAnd(a \div 2, b \div 2)

RECURSIVE BitOr(_, _)
BitOr(a, b) ==
    IF a = 0 THEN b
    ELSE IF b = 0 THEN a
    ELSE (IF a % 2 = 1 \/ b % 2 = 1 THEN 1 ELSE 0) + 2 * BitOr(a \div 2, b \div 2)

RECURSIVE UnionOf(_)
UnionOf(fs) ==
    IF fs = {} THEN 0
    ELSE LET f == CHOOSE x \in fs : TRUE IN BitOr(f, UnionOf(fs \ {f}))

\* Options::all(): the union of every defined flag
OptionsAll == UnionOf(Flags)

\* Options::contains: every bit of other is set in self.  A single flag is a
\* single bit, which a division reads.
\* contains testing for equality: self is exactly the flags asked for
contains_exactly(self, other) == self = other

contains(self, other) ==
    IF other \in Flags
    THEN (self \div other) % 2 = 1
    ELSE BitAnd(self, other) = other

\* Options::empty()
OptionsEmpty == 0

\* Options::DEFAULT
OptionsDefault ==
    UnionOf({ IncludeInlineCode, IncludeTables, IncludeFootnotes,
              IncludeBlockHtml, IncludeHeadings })

\* every value of the type: the bit patterns made of defined flags only
\* count(text) is count_with_options(text, Options::DEFAULT)
CountOptions == OptionsDefault

OptionValues == { o \in 0..OptionsAll : BitAnd(o, OptionsAll) = o }

\* the values the passes of the model are called with: no toggle, the
\* default, every toggle, and every toggle but one
CallOptions ==
    { OptionsEmpty, OptionsDefault, OptionsAll } \cup { OptionsAll - f : f \in Flags }

----------------------------------------------------------------------------
(* struct State *)

U8 == 256

NewState ==
    [ in_code_block |-> FALSE,
      blockquote_level |-> 0,
      in_metadata_block |-> FALSE,
      in_footnote |-> FALSE,
      in_table |-> FALSE,
      in_heading |-> FALSE ]

in_blockquote(self) == self.blockquote_level > 0

\* allowed_for with the heading gate left out
allowed_for_no_heading(self, opts) ==
    /\ (~self.in_code_block \/ contains(opts, IncludeBlockCode))
    /\ (~in_blockquote(self) \/ contains(opts, IncludeBlockquotes))
    /\ (~self.in_metadata_block \/ contains(opts, IncludeMetadata))
    /\ (~self.in_footnote \/ contains(opts, IncludeFootnotes))
    /\ (~self.in_table \/ contains(opts, IncludeTables))

\* allowed_for without the `!self.in_.. ||` tests: every region toggle asked
\* for, whether its region is open or not
allowed_for_stateless(self, opts) ==
    \A f \in Flags \ { IncludeInlineCode, IncludeBlockHtml } : contains(opts, f)

\* allowed_for asking for any one open region to be enabled, not for all
allowed_for_any(self, opts) ==
    \/ ~( self.in_code_block \/ in_blockquote(self) \/ self.in_metadata_block
          \/ self.in_footnote \/ self.in_table \/ self.in_heading )
    \/ (self.in_code_block /\ contains(opts, IncludeBlockCode))
    \/ (in_blockquote(self) /\ contains(opts, IncludeBlockquotes))
    \/ (self.in_metadata_block /\ contains(opts, IncludeMetadata))
    \/ (self.in_footnote /\ contains(opts, IncludeFootnotes))
    \/ (self.in_table /\ contains(opts, IncludeTables))
    \/ (self.in_heading /\ contains(opts, IncludeHeadings))

allowed_for(self, opts) ==
    /\ (~self.in_code_block \/ contains(opts, IncludeBlockCode))
    /\ (~in_blockquote(self) \/ contains(opts, IncludeBlockquotes))
    /\ (~self.in_metadata_block \/ contains(opts, IncludeMetadata))
    /\ (~self.in_footnote \/ contains(opts, IncludeFootnotes))
    /\ (~self.in_table \/ contains(opts, IncludeTables))
    /\ (~self.in_heading \/ contains(opts, IncludeHeadings))

----------------------------------------------------------------------------
(* pulldown_cmark::Event and xmlparser::Token, as the pass reads them *)

TrackedTags ==
    { "CodeBlock", "BlockQuote", "MetadataBlock", "FootnoteDefinition",
      "Table", "Heading" }

OtherTags == { "Paragraph" }

Tags == TrackedTags \cup OtherTags

NoContent ==
    { "InlineHtml", "FootnoteReference", "SoftBreak", "HardBreak", "Rule",
      "TaskListMarker" }

Ev(type, tag, words, tokens) ==
    [ type |-> type, tag |-> tag, words |-> words, tokens |-> tokens ]

NoEvent == Ev("None", "", 0, <<>>)

Tok(kind, words) == [ kind |-> kind, words |-> words ]

\* what Tokenizer's iterator yields: Ok(Token::Text), Ok(another token), Err
HtmlItems ==
    { Tok("Text", w) : w \in 1..MaxWords } \cup { Tok("ElementStart", 0), Tok("Err", 0) }

\* the size of a blob: a unit for each word and for each other item
RECURSIVE BlobSize(_)
BlobSize(items) ==
    IF items = <<>> THEN 0
    ELSE (IF Head(items).kind = "Text" THEN Head(items).words ELSE 1)
         + BlobSize(Tail(items))

\* the blobs of at most MaxBlob units
HtmlBlobs ==
    { items \in UNION { [1..n -> HtmlItems] : n \in 0..MaxBlob } :
        BlobSize(items) <= MaxBlob }

----------------------------------------------------------------------------
(* count_with_options *)

Passes == DOMAIN pc

Upd(f, P, new(_)) == [ p \in DOMAIN f |-> IF p \in P THEN new(p) ELSE f[p] ]

Running(P) == P # {} /\ \A p \in P : pc[p] = "iter"

\* the words a pass adds when it counts event e
RECURSIVE TextWords(_)
TextWords(items) ==
    IF items = <<>> THEN 0
    ELSE (IF Head(items).kind = "Text" THEN Head(items).words ELSE 0)
         + TextWords(Tail(items))

EventWords(e) == IF e.type = "Html" THEN TextWords(e.tokens) ELSE e.words

\* `for event in parser`: the parser yields e to every pass of P.  The parser
\* closes only blockquotes it has opened, and D bounds how deep it nests them.
Yields(P, e, D) ==
    /\ Running(P)
    /\ \A p \in P :
        /\ count[p] + EventWords(e) <= MaxCount
        /\ (e.type = "Start" /\ e.tag = "BlockQuote") => open[p] < D
        /\ (e.type = "End" /\ e.tag = "BlockQuote") => open[p] > 0
    /\ LET ev(p) == e
           op(p) == IF e.tag # "BlockQuote" THEN open[p]
                    ELSE IF e.type = "Start" THEN open[p] + 1 ELSE open[p] - 1
       IN  /\ event' = Upd(event, P, ev)
           /\ open' = Upd(open, P, op)

ParserYields(P, e, D) == Yields(P, e, D) /\ UNCHANGED <<raw, acc, cli>>

\* the parser of a text whose regions of kind K nest in one another, up to D
\* deep: it closes only regions of kind K it has opened
YieldsNesting(P, e, K, D) ==
    /\ Running(P)
    /\ \A p \in P :
        /\ count[p] + EventWords(e) <= MaxCount
        /\ (e.type = "Start" /\ e.tag = K) => open[p] < D
        /\ (e.type = "End" /\ e.tag = K) => open[p] > 0
    /\ LET ev(p) == e
           op(p) == IF e.tag # K THEN open[p]
                    ELSE IF e.type = "Start" THEN open[p] + 1 ELSE open[p] - 1
       IN  /\ event' = Upd(event, P, ev)
           /\ open' = Upd(open, P, op)
    /\ UNCHANGED <<raw, acc, cli>>

\* the Text arm adding to one total shared by every pass
HandleText_shared(P, w) ==
    /\ count' = [ p \in DOMAIN count |->
                    IF allowed_for(state[p], options[p])
                    THEN count[p] + w ELSE count[p] ]
    /\ UNCHANGED <<options, state, pc>>

\* the Text arm with its test inverted: counting where allowed_for is false
HandleText_inverted(P, w) ==
    /\ LET new(p) == IF ~allowed_for(state[p], options[p])
                     THEN count[p] + w ELSE count[p]
       IN  count' = Upd(count, P, new)
    /\ UNCHANGED <<options, state, pc>>

\* Text(text) => if state.allowed_for(&options) { count += words }
HandleText(P, w) ==
    /\ LET new(p) == IF allowed_for(state[p], options[p])
                     THEN count[p] + w ELSE count[p]
       IN  count' = Upd(count, P, new)
    /\ UNCHANGED <<options, state, pc>>

\* the Code arm assigning the words to the total where it should add them
HandleCode_assigns(P, w) ==
    /\ LET new(p) == IF contains(options[p], IncludeInlineCode)
                     THEN w ELSE count[p]
       IN  count' = Upd(count, P, new)
    /\ UNCHANGED <<options, state, pc>>

\* the Code arm gated like the Text arm, by the open regions as well
HandleCode_gated(P, w) ==
    /\ LET new(p) == IF contains(options[p], IncludeInlineCode)
                        /\ allowed_for(state[p], options[p])
                     THEN count[p] + w ELSE count[p]
       IN  count' = Upd(count, P, new)
    /\ UNCHANGED <<options, state, pc>>

\* Code(text) => if options.contains(IncludeInlineCode) { count += words }
HandleCode(P, w) ==
    /\ LET new(p) == IF contains(options[p], IncludeInlineCode)
                     THEN count[p] + w ELSE count[p]
       IN  count' = Upd(count, P, new)
    /\ UNCHANGED <<options, state, pc>>

\* blockquote_level += 1 and -= 1 on a u8 leave its range at 255 + 1 and at
\* 0 - 1: a build with overflow checks panics there, a build without wraps
StartOverflows(st, tag) ==
    tag = "BlockQuote" /\ st.blockquote_level + 1 >= U8

EndOverflows(st, tag) ==
    tag = "BlockQuote" /\ st.blockquote_level - 1 < 0

\* the Start arm flipping the flags where it should set them
StartState_toggles(st, tag) ==
    CASE tag = "CodeBlock" -> [st EXCEPT !.in_code_block = ~@]
      [] tag = "BlockQuote" -> [st EXCEPT !.blockquote_level = (@ + 1) % U8]
      [] tag = "MetadataBlock" -> [st EXCEPT !.in_metadata_block = ~@]
      [] tag = "FootnoteDefinition" -> [st EXCEPT !.in_footnote = ~@]
      [] tag = "Table" -> [st EXCEPT !.in_table = ~@]
      [] tag = "Heading" -> [st EXCEPT !.in_heading = ~@]
      [] OTHER -> st

\* the Start arm without its Tag::Heading line: headings fall to `_ => {}`
StartState_skips_heading(st, tag) ==
    CASE tag = "CodeBlock" -> [st EXCEPT !.in_code_block = TRUE]
      [] tag = "BlockQuote" -> [st EXCEPT !.blockquote_level = (@ + 1) % U8]
      [] tag = "MetadataBlock" -> [st EXCEPT !.in_metadata_block = TRUE]
      [] tag = "FootnoteDefinition" -> [st EXCEPT !.in_footnote = TRUE]
      [] tag = "Table" -> [st EXCEPT !.in_table = TRUE]
      [] OTHER -> st

StartState(st, tag) ==
    CASE tag = "CodeBlock" -> [st EXCEPT !.in_code_block = TRUE]
      [] tag = "BlockQuote" -> [st EXCEPT !.blockquote_level = (@ + 1) % U8]
      [] tag = "MetadataBlock" -> [st EXCEPT !.in_metadata_block = TRUE]
      [] tag = "FootnoteDefinition" -> [st EXCEPT !.in_footnote = TRUE]
      [] tag = "Table" -> [st EXCEPT !.in_table = TRUE]
      [] tag = "Heading" -> [st EXCEPT !.in_heading = TRUE]
      [] OTHER -> st

EndState(st, tag) ==
    CASE tag = "CodeBlock" -> [st EXCEPT !.in_code_block = FALSE]
      [] tag = "BlockQuote" -> [st EXCEPT !.blockquote_level = (@ - 1) % U8]
      [] tag = "MetadataBlock" -> [st EXCEPT !.in_metadata_block = FALSE]
      [] tag = "FootnoteDefinition" -> [st EXCEPT !.in_footnote = FALSE]
      [] tag = "Table" -> [st EXCEPT !.in_table = FALSE]
      [] tag = "Heading" -> [st EXCEPT !.in_heading = FALSE]
      [] OTHER -> st

\* the outcomes of an arithmetic step: overflow_checks on (panic) or off (wrap)
Builds(overflows) == IF overflows THEN BOOLEAN ELSE { FALSE }

\* Start(tag) => match tag { ... }
HandleStart(P, tag) ==
    /\ \E overflow_checks \in Builds(\E p \in P : StartOverflows(state[p], tag)) :
        LET panics(p) == overflow_checks /\ StartOverflows(state[p], tag)
            st(p) == IF panics(p) THEN state[p] ELSE StartState(state[p], tag)
            at(p) == IF panics(p) THEN "panicked" ELSE pc[p]
        IN  /\ state' = Upd(state, P, st)
            /\ pc' = Upd(pc, P, at)
    /\ UNCHANGED <<options, count>>

\* End(tag) => match tag { ... }
HandleEnd(P, tag) ==
    /\ \E overflow_checks \in Builds(\E p \in P : EndOverflows(state[p], tag)) :
        LET panics(p) == overflow_checks /\ EndOverflows(state[p], tag)
            st(p) == IF panics(p) THEN state[p] ELSE EndState(state[p], tag)
            at(p) == IF panics(p) THEN "panicked" ELSE pc[p]
        IN  /\ state' = Upd(state, P, st)
            /\ pc' = Upd(pc, P, at)
    /\ UNCHANGED <<options, count>>

\* the tokens collected into one Result: an Err item discards them all
flatten_all_or_nothing(items) ==
    IF \E i \in 1..Len(items) : items[i].kind = "Err" THEN <<>> ELSE items

\* Tokenizer::from(html).flatten(): the Ok items, the Err items dropped
flatten(items) == SelectSeq(items, LAMBDA t : t.kind # "Err")

\* the Html arm counting every token the tokenizer yields as one word
HandleHtml_tokens(P, items) ==
    /\ LET new(p) == IF contains(options[p], IncludeBlockHtml)
                     THEN count[p] + Len(flatten(items)) ELSE count[p]
       IN  count' = Upd(count, P, new)
    /\ UNCHANGED <<options, state, pc>>

\* Html(html) => if options.contains(IncludeBlockHtml) { for token in ... }
HandleHtml(P, items) ==
    /\ LET new(p) == IF contains(options[p], IncludeBlockHtml)
                     THEN count[p] + TextWords(flatten(items)) ELSE count[p]
       IN  count' = Upd(count, P, new)
    /\ UNCHANGED <<options, state, pc>>

\* the no-content arm closing the open heading, as a break would end a line
HandleNoContent_ends_heading(P) ==
    /\ state' = Upd(state, P, LAMBDA p : [state[p] EXCEPT !.in_heading = FALSE])
    /\ UNCHANGED <<options, count, pc>>

\* InlineHtml(_) | FootnoteReference(_) | SoftBreak | HardBreak | Rule |
\* TaskListMarker(_) => {}
HandleNoContent(P) ==
    UNCHANGED <<options, state, count, pc>>

----------------------------------------------------------------------------
(* One pass over one document *)

OnText(P, D) ==
    \E w \in 0..MaxWords :
        ParserYields(P, Ev("Text", "", w, <<>>), D) /\ HandleText(P, w)

OnCode(P, D) ==
    \E w \in 0..MaxWords :
        ParserYields(P, Ev("Code", "", w, <<>>), D) /\ HandleCode(P, w)

OnStart(P, D, tags) ==
    \E tag \in tags :
        ParserYields(P, Ev("Start", tag, 0, <<>>), D) /\ HandleStart(P, tag)

OnEnd(P, D, tags) ==
    \E tag \in tags :
        ParserYields(P, Ev("End", tag, 0, <<>>), D) /\ HandleEnd(P, tag)

OnHtml(P, D) ==
    \E items \in HtmlBlobs :
        ParserYields(P, Ev("Html", "", 0, items), D) /\ HandleHtml(P, items)

OnNoContent(P, D) ==
    \E type \in NoContent :
        ParserYields(P, Ev(type, "", 0, <<>>), D) /\ HandleNoContent(P)

\* the parser is exhausted, every blockquote closed: the loop ends and the
\* function returns count
Return(P) ==
    /\ Running(P)
    /\ \A p \in P : open[p] = 0
    /\ pc' = Upd(pc, P, LAMBDA p : "done")
    /\ UNCHANGED <<options, state, count, event, open, raw, acc, cli>>

----------------------------------------------------------------------------
(* main's command line (struct Args, struct Paths) and options_from *)

Toggles ==
    { "metadata", "blockquotes", "headings", "footnotes", "tables",
      "inline_code", "block_code", "block_html" }

\* the `default_value`s of Args; no file, no --output, no --force
ArgsDefault ==
    [ all |-> FALSE, metadata |-> FALSE, blockquotes |-> FALSE,
      headings |-> TRUE, footnotes |-> TRUE, tables |-> TRUE,
      inline_code |-> TRUE, block_code |-> FALSE, block_html |-> TRUE,
      files |-> 0, output |-> "None", force |-> "None" ]

\* what Args::parse() returns for the toggles: --all conflicts with every
\* toggle, so with it the toggles keep their defaults
ParsedToggles ==
    { [ ArgsDefault EXCEPT !.all = TRUE ] }
        \cup { [ t \in DOMAIN ArgsDefault |->
                    IF t \in Toggles THEN on[t] ELSE ArgsDefault[t] ] :
                on \in [ Toggles -> BOOLEAN ] }

\* options_from with `options |= IncludeBlockCode` under args.block_html too
options_from_block_code_twice(a) ==
    IF a.all THEN OptionsAll
    ELSE LET o1 == IF a.metadata THEN BitOr(OptionsEmpty, IncludeMetadata) ELSE OptionsEmpty
             o2 == IF a.blockquotes THEN BitOr(o1, IncludeBlockquotes) ELSE o1
             o3 == IF a.headings THEN BitOr(o2, IncludeHeadings) ELSE o2
             o4 == IF a.footnotes THEN BitOr(o3, IncludeFootnotes) ELSE o3
             o5 == IF a.tables THEN BitOr(o4, IncludeTables) ELSE o4
             o6 == IF a.inline_code THEN BitOr(o5, IncludeInlineCode) ELSE o5
             o7 == IF a.block_code THEN BitOr(o6, IncludeBlockCode) ELSE o6
             o8 == IF a.block_html THEN BitOr(o7, IncludeBlockCode) ELSE o7
         IN  o8

options_from(a) ==
    IF a.all THEN OptionsAll
    ELSE LET o1 == IF a.metadata THEN BitOr(OptionsEmpty, IncludeMetadata) ELSE OptionsEmpty
             o2 == IF a.blockquotes THEN BitOr(o1, IncludeBlockquotes) ELSE o1
             o3 == IF a.headings THEN BitOr(o2, IncludeHeadings) ELSE o2
             o4 == IF a.footnotes THEN BitOr(o3, IncludeFootnotes) ELSE o3
             o5 == IF a.tables THEN BitOr(o4, IncludeTables) ELSE o4
             o6 == IF a.inline_code THEN BitOr(o5, IncludeInlineCode) ELSE o5
             o7 == IF a.block_code THEN BitOr(o6, IncludeBlockCode) ELSE o6
             o8 == IF a.block_html THEN BitOr(o7, IncludeBlockHtml) ELSE o7
         IN  o8

\* Paths::resolve not yet called: no input opened, no result
ResStart ==
    [ pc |-> "resolve", opened |-> 0, file_exists |-> FALSE, result |-> "None" ]

\* nothing at the output path, no directory made for it
DiskEmpty == [ file |-> "absent", dirs |-> FALSE ]

\* the locals of a call: State { false, 0, ... }, count = 0 (main stays as
\* Args::parse() with no argument leaves it)
Call(P, opts) ==
    /\ options = opts
    /\ state = [ p \in P |-> NewState ]
    /\ count = [ p \in P |-> 0 ]
    /\ pc = [ p \in P |-> "iter" ]
    /\ event = [ p \in P |-> NoEvent ]
    /\ open = [ p \in P |-> 0 ]
    /\ raw = [ p \in P |-> 0 ]
    /\ acc = {}
    /\ args = ArgsDefault
    /\ res = ResStart
    /\ disk = DiskEmpty

Init == \E o \in CallOptions : Call({1}, [ p \in {1} |-> o ])

Next ==
    \/ OnText({1}, MaxDepth)
    \/ OnCode({1}, MaxDepth)
    \/ OnStart({1}, MaxDepth, Tags)
    \/ OnEnd({1}, MaxDepth, Tags)
    \/ OnHtml({1}, MaxDepth)
    \/ OnNoContent({1}, MaxDepth)
    \/ Return({1})

Spec == Init /\ [][Next]_vars

----------------------------------------------------------------------------
(* One pass over a document of blockquotes nested past the range of a u8 *)

NextDeep ==
    \/ OnText({1}, U8 - 1 + MaxOverflow)
    \/ OnStart({1}, U8 - 1 + MaxOverflow, { "BlockQuote" })
    \/ OnEnd({1}, U8 - 1 + MaxOverflow, { "BlockQuote" })
    \/ Return({1})

SpecDeep == Init /\ [][NextDeep]_vars

----------------------------------------------------------------------------
(* Two passes over the same text, called with Options a and b where b      *)
(* enables every toggle a enables: the parser yields both the same events  *)

\* b enables one toggle more than a, or a is empty and b the default
MonoPairs ==
    { <<OptionsAll - f, OptionsAll>> : f \in Flags }
        \cup { <<OptionsEmpty, OptionsDefault>> }

InitMono == \E pr \in MonoPairs : Call({1, 2}, pr)

NextMono ==
    \/ OnText({1, 2}, MaxDepth)
    \/ OnCode({1, 2}, MaxDepth)
    \/ OnStart({1, 2}, MaxDepth, Tags)
    \/ OnEnd({1, 2}, MaxDepth, Tags)
    \/ OnHtml({1, 2}, MaxDepth)
    \/ OnNoContent({1, 2}, MaxDepth)
    \/ Return({1, 2})

SpecMono == InitMono /\ [][NextMono]_vars

----------------------------------------------------------------------------
(* main's parallel fold: passes over different documents, each called with *)
(* the one resolved_options value (Options is Copy), their steps           *)
(* interleaved in any order by the thread pool                             *)

ParTags == { "BlockQuote", "Heading" }

InitPar ==
    \E o \in { OptionsDefault, OptionsAll } : Call({1, 2}, [ p \in {1, 2} |-> o ])

NextPar ==
    \E p \in {1, 2} :
        \/ OnText({p}, MaxDepth)
        \/ OnStart({p}, MaxDepth, ParTags)
        \/ OnEnd({p}, MaxDepth, ParTags)
        \/ Return({p})

SpecPar == InitPar /\ [][NextPar]_vars

----------------------------------------------------------------------------
(* Two passes over a text with no tracked region, no inline code and no    *)
(* HTML, called with different Options.  The parser reads the raw text and *)
(* yields Text for its prose, Start and End for paragraphs and links, and  *)
(* breaks and rules.  A link's destination is in the raw text and in the   *)
(* Start(Link) tag, never in a Text event.                                 *)

PlainTags == { "Paragraph", "Link" }

PlainBreaks == { "SoftBreak", "HardBreak", "Rule" }

PlainPairs ==
    { <<OptionsEmpty, OptionsAll>>, <<OptionsDefault, OptionsEmpty>>,
      <<OptionsAll, OptionsDefault>> }

\* the parser has read w more words of the raw text
Reads(P, w) ==
    /\ \A p \in P : raw[p] + w <= MaxCount
    /\ raw' = Upd(raw, P, LAMBDA p : raw[p] + w)
    /\ UNCHANGED <<acc, cli>>

PlainText(P) ==
    \E w \in 0..MaxWords :
        /\ Yields(P, Ev("Text", "", w, <<>>), 0)
        /\ HandleText(P, w)
        /\ Reads(P, w)

\* d: the words of the destination of a link
PlainStart(P) ==
    \E tag \in PlainTags, d \in 0..MaxWords :
        /\ tag = "Link" \/ d = 0
        /\ Yields(P, Ev("Start", tag, 0, <<>>), 0)
        /\ HandleStart(P, tag)
        /\ Reads(P, d)

PlainEnd(P) ==
    \E tag \in PlainTags :
        /\ Yields(P, Ev("End", tag, 0, <<>>), 0)
        /\ HandleEnd(P, tag)
        /\ Reads(P, 0)

PlainBreak(P) ==
    \E type \in PlainBreaks :
        /\ Yields(P, Ev(type, "", 0, <<>>), 0)
        /\ HandleNoContent(P)
        /\ Reads(P, 0)

InitPlain == \E pr \in PlainPairs : Call({1, 2}, pr)

NextPlain ==
    \/ PlainText({1, 2})
    \/ PlainStart({1, 2})
    \/ PlainEnd({1, 2})
    \/ PlainBreak({1, 2})
    \/ Return({1, 2})

SpecPlain == InitPlain /\ [][NextPlain]_vars

----------------------------------------------------------------------------
(* One pass over the text "# Heading 1" (tests.rs, includes_heading_1),    *)
(* called with any Options value.  The parser yields Start(Heading),       *)
(* Text("Heading 1") and End(Heading); the segmenter finds two words in    *)
(* "Heading 1".  The event handled last tells how far the parser is.       *)

Heading1Words == 2

InitHeading1 == \E o \in OptionValues : Call({1}, [ p \in {1} |-> o ])

NextHeading1 ==
    \/ /\ event[1] = NoEvent
       /\ OnStart({1}, 0, { "Heading" })
    \/ /\ event[1] = Ev("Start", "Heading", 0, <<>>)
       /\ ParserYields({1}, Ev("Text", "", Heading1Words, <<>>), 0)
       /\ HandleText({1}, Heading1Words)
    \/ /\ event[1] = Ev("Text", "", Heading1Words, <<>>)
       /\ OnEnd({1}, 0, { "Heading" })
    \/ /\ event[1] = Ev("End", "Heading", 0, <<>>)
       /\ Return({1})

SpecHeading1 == InitHeading1 /\ [][NextHeading1]_vars

----------------------------------------------------------------------------
(* main: contents.par_iter().fold(..).reduce(..) over three documents.     *)
(* The thread pool splits the documents into batches as it likes: a batch  *)
(* starts from fold's identity and folds one document after the other,     *)
(* calling count_with_options on each; reduce merges the batches' results  *)
(* two at a time, in any order, until one is left for report.              *)

Docs == { 1, 2, 3 }

\* || (0, vec![])
FoldIdentity == [ sum |-> 0, pairs |-> <<>> ]

\* |(sum, mut pairs), (path, content)| { .. (new_sum, pairs) }
FoldOp(a, d) ==
    [ sum |-> a.sum + count[d], pairs |-> Append(a.pairs, <<d, count[d]>>) ]

\* the reduce closure without `total + subtotal`: the left total kept
ReduceOp_keeps_total(a, b) ==
    [ sum |-> a.sum, pairs |-> a.pairs \o b.pairs ]

\* |(total, mut pairs), (subtotal, subpairs)| { .. (total + subtotal, pairs) }
ReduceOp(a, b) ==
    [ sum |-> a.sum + b.sum, pairs |-> a.pairs \o b.pairs ]

\* a batch begins with the identity
FoldStart ==
    /\ FoldIdentity \notin acc
    /\ acc' = acc \cup { FoldIdentity }
    /\ UNCHANGED <<options, state, count, pc, event, open, raw, cli>>

\* a batch folds document d, whose count_with_options call has returned
Fold ==
    \E a \in acc, d \in Docs :
        /\ pc[d] = "done"
        /\ acc' = (acc \ { a }) \cup { FoldOp(a, d) }
        /\ pc' = [ pc EXCEPT ![d] = "folded" ]
        /\ UNCHANGED <<options, state, count, event, open, raw, cli>>

\* reduce merges two results, either one on the left
Reduce ==
    \E a, b \in acc :
        /\ a # b
        /\ acc' = (acc \ { a, b }) \cup { ReduceOp(a, b) }
        /\ UNCHANGED <<options, state, count, pc, event, open, raw, cli>>

InitFold == Call(Docs, [ d \in Docs |-> OptionsDefault ])

NextFold ==
    \/ \E d \in Docs : OnText({d}, 0)
    \/ \E d \in Docs : Return({d})
    \/ FoldStart
    \/ Fold
    \/ Reduce

SpecFold == InitFold /\ [][NextFold]_vars

----------------------------------------------------------------------------
(* One pass over a text whose footnote definitions hold footnote           *)
(* definitions: the parser opens a FootnoteDefinition inside an open one   *)
(* and closes them innermost first; the other flagged regions start and    *)
(* end around them                                                         *)

FlagTags == TrackedTags \ { "BlockQuote" }

NestTag == "FootnoteDefinition"

NextNest ==
    \/ \E w \in 0..MaxWords :
          /\ YieldsNesting({1}, Ev("Text", "", w, <<>>), NestTag, MaxDepth + 1)
          /\ HandleText({1}, w)
    \/ \E tag \in FlagTags :
          /\ YieldsNesting({1}, Ev("Start", tag, 0, <<>>), NestTag, MaxDepth + 1)
          /\ HandleStart({1}, tag)
    \/ \E tag \in FlagTags :
          /\ YieldsNesting({1}, Ev("End", tag, 0, <<>>), NestTag, MaxDepth + 1)
          /\ HandleEnd({1}, tag)
    \/ Return({1})

SpecNest == Init /\ [][NextNest]_vars

----------------------------------------------------------------------------
(* main from `let resolved_options = options_from(&args)` on: one document *)
(* read from stdin, counted under the options the command line asked for   *)

\* Paths::resolve returned Ok with stdin and stdout
ResOk == [ ResStart EXCEPT !.pc = "done", !.result = "Ok" ]

\* `let resolved_options = options_from(&args);`, then the closure calls
\* count_with_options(content, resolved_options)
ResolveOptions ==
    /\ pc = <<"main">>
    /\ options' = <<options_from(args)>>
    /\ pc' = <<"iter">>
    /\ UNCHANGED <<state, count, event, open, raw, acc, cli>>

InitArgs ==
    /\ args \in ParsedToggles
    /\ res = ResOk
    /\ disk = DiskEmpty
    /\ options = <<OptionsEmpty>>
    /\ state = <<NewState>>
    /\ count = <<0>>
    /\ pc = <<"main">>
    /\ event = <<NoEvent>>
    /\ open = <<0>>
    /\ raw = <<0>>
    /\ acc = {}

NextArgs ==
    \/ ResolveOptions
    \/ OnText({1}, MaxDepth)
    \/ Return({1})

SpecArgs == InitArgs /\ [][NextArgs]_vars

----------------------------------------------------------------------------
(* main's `args.paths.resolve()`: Paths::resolve, to_input_buffers and     *)
(* output_buffer, one step per call into the file system, beside another   *)
(* process that may create a file at the output path                       *)

\* --output: absent, a path with a parent directory, or a path without one
OutputValues == { "None", "File", "NoParent" }

\* --force: Option<bool>
ForceValues == { "None", "true", "false" }

\* self.force.unwrap_or(false)
Force(a) == a.force = "true"

Returns(result) == res' = [ res EXCEPT !.pc = "done", !.result = result ]

\* the match on (&self.output, force)
ResolveDest ==
    /\ res.pc = "resolve"
    /\ IF args.output = "None" /\ Force(args)
       THEN Returns("InvalidArgs")
       ELSE res' = [ res EXCEPT !.pc = "inputs" ]
    /\ UNCHANGED <<options, state, count, pc, event, open, raw, acc, args, disk>>

\* to_input_buffers: File::open on the next path; collect stops at the
\* first Err
OpenInput ==
    /\ res.pc = "inputs"
    /\ res.opened < args.files
    /\ \/ res' = [ res EXCEPT !.opened = @ + 1 ]
       \/ Returns("CouldNotOpenFileRead")
    /\ UNCHANGED <<options, state, count, pc, event, open, raw, acc, args, disk>>

\* output_buffer up to its first call into the file system: stdout, or
\* path.parent()
EnterOutputBuffer ==
    /\ res.pc = "inputs"
    /\ res.opened = args.files
    /\ CASE args.output = "None"     -> Returns("Ok")
         [] args.output = "NoParent" -> Returns("InvalidDirectory")
         [] args.output = "File"     -> res' = [ res EXCEPT !.pc = "create_dir_all" ]
    /\ UNCHANGED <<options, state, count, pc, event, open, raw, acc, args, disk>>

\* std::fs::create_dir_all(dir)
CreateDirAll ==
    /\ res.pc = "create_dir_all"
    /\ \/ /\ res' = [ res EXCEPT !.pc = "try_exists" ]
          /\ disk' = [ disk EXCEPT !.dirs = TRUE ]
       \/ /\ Returns("CreateDirectory")
          /\ UNCHANGED disk
    /\ UNCHANGED <<options, state, count, pc, event, open, raw, acc, args>>

\* try_exists answering for a file it has just opened with File::create
TryExists_by_creating ==
    /\ res.pc = "try_exists"
    /\ \/ /\ disk' = [ disk EXCEPT !.file =
                          IF @ = "absent" THEN "created" ELSE "truncated" ]
          /\ IF ~Force(args)
             THEN res' = [ res EXCEPT !.pc = "done", !.file_exists = TRUE,
                                      !.result = "FileExists" ]
             ELSE res' = [ res EXCEPT !.pc = "create", !.file_exists = TRUE ]
       \/ /\ Returns("CheckFileExists")
          /\ UNCHANGED disk
    /\ UNCHANGED <<options, state, count, pc, event, open, raw, acc, args>>

\* `let file_exists = path.try_exists()?` and the test of it against force
TryExists ==
    /\ res.pc = "try_exists"
    /\ \/ LET exists == disk.file # "absent"
          IN  IF exists /\ ~Force(args)
              THEN res' = [ res EXCEPT !.pc = "done", !.file_exists = exists,
                                       !.result = "FileExists" ]
              ELSE res' = [ res EXCEPT !.pc = "create", !.file_exists = exists ]
       \/ Returns("CheckFileExists")
    /\ UNCHANGED <<options, state, count, pc, event, open, raw, acc, args, disk>>

\* std::fs::File::create(path): makes the file, or truncates the one there
FileCreate ==
    /\ res.pc = "create"
    /\ \/ /\ disk' = [ disk EXCEPT !.file =
                          IF @ = "absent" THEN "created" ELSE "truncated" ]
          /\ Returns("Ok")
       \/ /\ Returns("CouldNotOpenFileWrite")
          /\ UNCHANGED disk
    /\ UNCHANGED <<options, state, count, pc, event, open, raw, acc, args>>

\* another process creates a file at the output path
OtherCreates ==
    /\ disk.file = "absent"
    /\ disk' = [ disk EXCEPT !.file = "present" ]
    /\ UNCHANGED <<options, state, count, pc, event, open, raw, acc, args, res>>

InitResolve ==
    /\ \E n \in 0..MaxFiles, o \in OutputValues, f \in ForceValues :
          args = [ ArgsDefault EXCEPT !.files = n, !.output = o, !.force = f ]
    /\ res = ResStart
    /\ \E f \in { "absent", "present" } : disk = [ file |-> f, dirs |-> FALSE ]
    /\ options = <<OptionsEmpty>>
    /\ state = <<NewState>>
    /\ count = <<0>>
    /\ pc = <<"main">>
    /\ event = <<NoEvent>>
    /\ open = <<0>>
    /\ raw = <<0>>
    /\ acc = {}

NextResolve ==
    \/ ResolveDest
    \/ OpenInput
    \/ EnterOutputBuffer
    \/ CreateDirAll
    \/ TryExists
    \/ FileCreate
    \/ OtherCreates

SpecResolve == InitResolve /\ [][NextResolve]_vars

----------------------------------------------------------------------------
(* What the claims below read off a step *)

\* pass p took an event from the parser in this step: it was in the loop and
\* did not return (with one pass, every other step is an event)
Handled(p) == pc[p] = "iter" /\ pc'[p] # "done"

Enabled(p, flag) == contains(options[p], flag)

\* the regions open in a State, each under the toggle that gates it
OpenToggles(st) ==
    (IF st.in_code_block THEN { IncludeBlockCode } ELSE {})
        \cup (IF st.blockquote_level # 0 THEN { IncludeBlockquotes } ELSE {})
        \cup (IF st.in_metadata_block THEN { IncludeMetadata } ELSE {})
        \cup (IF st.in_footnote THEN { IncludeFootnotes } ELSE {})
        \cup (IF st.in_table THEN { IncludeTables } ELSE {})
        \cup (IF st.in_heading THEN { IncludeHeadings } ELSE {})

\* the sum of the words of the Text tokens among the items of a blob
RECURSIVE SumTextTokens(_)
SumTextTokens(items) ==
    IF items = <<>> THEN 0
    ELSE LET t == items[Len(items)]
         IN  SumTextTokens(SubSeq(items, 1, Len(items) - 1))
                 + (IF t.kind = "Text" THEN t.words ELSE 0)

----------------------------------------------------------------------------
(* C1: a Text event adds its word count to the total exactly when         *)
(* (not in_code_block or IncludeBlockCode) and (blockquote_level = 0 or   *)
(* IncludeBlockquotes) and (not in_metadata_block or IncludeMetadata) and *)
(* (not in_footnote or IncludeFootnotes) and (not in_table or             *)
(* IncludeTables) and (not in_heading or IncludeHeadings) holds of the    *)
(* state at that moment; otherwise the total is left unchanged.           *)

C1_Gate(p) ==
    /\ (~state[p].in_code_block \/ Enabled(p, IncludeBlockCode))
    /\ (state[p].blockquote_level = 0 \/ Enabled(p, IncludeBlockquotes))
    /\ (~state[p].in_metadata_block \/ Enabled(p, IncludeMetadata))
    /\ (~state[p].in_footnote \/ Enabled(p, IncludeFootnotes))
    /\ (~state[p].in_table \/ Enabled(p, IncludeTables))
    /\ (~state[p].in_heading \/ Enabled(p, IncludeHeadings))

C1_TextCountedIffAllowed ==
    [][ \A p \in Passes :
          (Handled(p) /\ event'[p].type = "Text") =>
              /\ C1_Gate(p) => count'[p] = count[p] + event'[p].words
              /\ ~C1_Gate(p) => count'[p] = count[p]
              /\ C1_Gate(p) <=> allowed_for(state[p], options[p]) ]_vars

\* a two-word Text was counted inside a heading inside a blockquote, both
\* enabled, by a pass called with every toggle but IncludeTables
C1_Witness ==
    /\ options[1] = OptionsAll - IncludeTables
    /\ event[1] = Ev("Text", "", 2, <<>>)
    /\ state[1].in_heading /\ state[1].blockquote_level = 1 /\ ~state[1].in_table
    /\ count[1] = 2

----------------------------------------------------------------------------
(* C2: an inline-code event (Event::Code) adds its word count to the total *)
(* exactly when IncludeInlineCode is enabled, whatever regions are open    *)
(* and whatever their toggles: it is not subject to allowed_for.           *)

C2_CodeCountedIffInlineCode ==
    [][ \A p \in Passes :
          (Handled(p) /\ event'[p].type = "Code") =>
              /\ state'[p] = state[p]
              /\ count'[p] = count[p]
                    + (IF Enabled(p, IncludeInlineCode) THEN event'[p].words ELSE 0) ]_vars

\* a two-word code span was counted inside a code block and a table, by a
\* pass called with the default options, which disable IncludeBlockCode
C2_Witness ==
    /\ options[1] = OptionsDefault
    /\ event[1] = Ev("Code", "", 2, <<>>)
    /\ state[1].in_code_block /\ state[1].in_table
    /\ ~allowed_for(state[1], options[1])
    /\ count[1] = 2

----------------------------------------------------------------------------
(* C3: an Html event adds to the total the sum of the word counts of the   *)
(* text tokens the tokenizer produces for its blob (tag tokens and errors  *)
(* add nothing) if IncludeBlockHtml is enabled and nothing if it is not;   *)
(* the outcome does not depend on the open regions and leaves the State    *)
(* unchanged.                                                              *)

C3_HtmlCountsTextTokens ==
    [][ \A p \in Passes :
          (Handled(p) /\ event'[p].type = "Html") =>
              /\ state'[p] = state[p]
              /\ count'[p] = count[p]
                    + (IF Enabled(p, IncludeBlockHtml)
                       THEN SumTextTokens(event'[p].tokens) ELSE 0) ]_vars

\* a blob of a tag token and a one-word text token was counted inside a
\* metadata block, which the default options exclude
C3_Witness ==
    /\ options[1] = OptionsDefault
    /\ event[1] = Ev("Html", "", 0, <<Tok("ElementStart", 0), Tok("Text", 1)>>)
    /\ state[1].in_metadata_block
    /\ ~allowed_for(state[1], options[1])
    /\ count[1] = 1

----------------------------------------------------------------------------
(* C4: the events InlineHtml, FootnoteReference, SoftBreak, HardBreak,     *)
(* Rule and TaskListMarker leave the running total and every field of the  *)
(* State unchanged, for every Options value and every State.               *)

C4_NoContentChangesNothing ==
    [][ \A p \in Passes :
          (Handled(p) /\ event'[p].type \in NoContent) =>
              (count'[p] = count[p] /\ state'[p] = state[p] /\ pc'[p] = pc[p]) ]_vars

\* a Rule was handled with a heading open, every toggle enabled and a word
\* counted: the heading is still open and the total still 1
C4_Witness ==
    /\ options[1] = OptionsAll
    /\ event[1] = Ev("Rule", "", 0, <<>>)
    /\ state[1] = [NewState EXCEPT !.in_heading = TRUE]
    /\ count[1] = 1

----------------------------------------------------------------------------
(* C5: a Start or End event of one of the six tracked kinds changes only   *)
(* that kind's own field (CodeBlock, MetadataBlock, FootnoteDefinition,    *)
(* Table, Heading: the flag is true after Start and false after End;       *)
(* BlockQuote: blockquote_level + 1 on Start and - 1 on End) and leaves    *)
(* the other five fields and the running total unchanged; a Start or End   *)
(* of any other tag kind changes nothing at all.                           *)

C5_After(st, type, tag) ==
    CASE tag = "CodeBlock" -> [st EXCEPT !.in_code_block = (type = "Start")]
      [] tag = "BlockQuote" ->
            [st EXCEPT !.blockquote_level = IF type = "Start" THEN @ + 1 ELSE @ - 1]
      [] tag = "MetadataBlock" -> [st EXCEPT !.in_metadata_block = (type = "Start")]
      [] tag = "FootnoteDefinition" -> [st EXCEPT !.in_footnote = (type = "Start")]
      [] tag = "Table" -> [st EXCEPT !.in_table = (type = "Start")]
      [] tag = "Heading" -> [st EXCEPT !.in_heading = (type = "Start")]
      [] OTHER -> st

C5_TagChangesOwnFieldOnly ==
    [][ \A p \in Passes :
          (Handled(p) /\ event'[p].type \in { "Start", "End" }) =>
              /\ state'[p] = C5_After(state[p], event'[p].type, event'[p].tag)
              /\ count'[p] = count[p] ]_vars

----------------------------------------------------------------------------
(* C6: monotonicity in the options: for the same text, if every toggle     *)
(* enabled in A is enabled in B then count_with_options(text, A) is at     *)
(* most count_with_options(text, B).                                       *)

C6_MonotoneInOptions ==
    contains(options[2], options[1]) => count[1] <= count[2]

\* both passes have returned: the pass called with every toggle but
\* IncludeHeadings counted 1 word, the pass called with every toggle 2
C6_Witness ==
    /\ options = <<OptionsAll - IncludeHeadings, OptionsAll>>
    /\ pc = <<"done", "done">>
    /\ count = <<1, 2>>

----------------------------------------------------------------------------
(* C7: exclusion is monotonic in the State: if every region open in S is   *)
(* open in the State S' of the pass then allowed_for(S') implies           *)
(* allowed_for(S), and allowed_for is false, so that a Text event is       *)
(* excluded, whenever one open region has its toggle disabled, no matter   *)
(* which other regions are open or enabled.                                *)

\* the States with blockquotes nested as deep as the parser of Spec nests them
StateValues ==
    [ in_code_block : BOOLEAN, blockquote_level : 0..MaxDepth,
      in_metadata_block : BOOLEAN, in_footnote : BOOLEAN, in_table : BOOLEAN,
      in_heading : BOOLEAN ]

C7_ExclusionMonotonic ==
    \A p \in Passes :
        /\ \A S \in StateValues :
              (OpenToggles(S) \subseteq OpenToggles(state[p])
                  /\ allowed_for(state[p], options[p]))
              => allowed_for(S, options[p])
        /\ (\E f \in OpenToggles(state[p]) : ~Enabled(p, f))
              => ~allowed_for(state[p], options[p])

\* a two-word Text was dropped inside a table inside a footnote definition:
\* IncludeFootnotes is enabled, IncludeTables is not
C7_Witness ==
    /\ options[1] = OptionsAll - IncludeTables
    /\ event[1] = Ev("Text", "", 2, <<>>)
    /\ OpenToggles(state[1]) = { IncludeFootnotes, IncludeTables }
    /\ count[1] = 0

----------------------------------------------------------------------------
(* C8: on a well-formed event stream (every End(BlockQuote) closes an open *)
(* Start(BlockQuote)) blockquote_level is never negative, increases only   *)
(* on a Start(BlockQuote) event and decreases only on an End(BlockQuote)   *)
(* event.                                                                  *)

C8_LevelFollowsBlockquotes ==
    [][ \A p \in Passes :
          /\ state'[p].blockquote_level >= 0
          /\ state'[p].blockquote_level > state[p].blockquote_level
                => (Handled(p) /\ event'[p] = Ev("Start", "BlockQuote", 0, <<>>))
          /\ state'[p].blockquote_level < state[p].blockquote_level
                => (Handled(p) /\ event'[p] = Ev("End", "BlockQuote", 0, <<>>)) ]_vars

----------------------------------------------------------------------------
(* C9: count_with_options is total: whatever event stream the parser       *)
(* yields and whatever the Options, no pass reaches a failure state (a     *)
(* panic or abort); it handles every event and returns a count.            *)

C9_NeverPanics == \A p \in Passes : pc[p] \in { "iter", "done" }

----------------------------------------------------------------------------
(* C11: passes running concurrently on different documents, their steps    *)
(* interleaved in any order, do not touch each other: a step changes the   *)
(* locals (State, running total, position, parser) of at most one pass,    *)
(* and never the Options the passes were called with, so each pass returns *)
(* the total of its own events.                                            *)

Locals(p) == <<state[p], count[p], pc[p], event[p], open[p]>>

C11_PassesIsolated ==
    [][ /\ options' = options
        /\ \A p, q \in Passes :
              p # q => (Locals(p)' = Locals(p) \/ Locals(q)' = Locals(q)) ]_vars

\* pass 1 has returned 2 with its State back at rest while pass 2, called
\* with the same default options, is inside a blockquote with no word counted
C11_Witness ==
    /\ options = <<OptionsDefault, OptionsDefault>>
    /\ pc = <<"done", "iter">>
    /\ count = <<2, 0>>
    /\ state[1] = NewState
    /\ state[2].blockquote_level = 1
    /\ event[2] = Ev("Text", "", 2, <<>>)

----------------------------------------------------------------------------
(* C12: the running total is 0 before the first event, never decreases     *)
(* from one event to the next, and the value returned is the total after   *)
(* the last event: a pass over an empty event stream returns 0.            *)

C12_TotalNeverDecreases ==
    /\ [](\A p \in Passes : event[p] = NoEvent => count[p] = 0)
    /\ [][ \A p \in Passes :
              /\ count'[p] >= count[p]
              /\ (pc[p] = "iter" /\ pc'[p] = "done") => count'[p] = count[p] ]_vars

\* the pass has returned 1: it counted a one-word inline code span and then
\* dropped a Text inside a code block, which the default options exclude
C12_Witness ==
    /\ options[1] = OptionsDefault
    /\ pc[1] = "done"
    /\ count[1] = 1
    /\ state[1].in_code_block
    /\ event[1] = Ev("Text", "", 1, <<>>)

----------------------------------------------------------------------------
(* C13: for a text whose event stream has no Start or End of a tracked     *)
(* kind, no inline code and no HTML, count_with_options returns the same   *)
(* value for every Options value, and that value is the word count of the  *)
(* raw text.                                                               *)

C13_PlainTextCountsRawWords ==
    \A p \in Passes :
        pc[p] = "done" => (count[1] = count[2] /\ count[p] = raw[p])

(* C13 as amended: for such a text count_with_options returns the same     *)
(* value for every Options value, and that value is the sum of the word    *)
(* counts of the Text events of the stream: every Text event adds its      *)
(* words to the total of every pass and no other event adds anything.      *)

C13_PlainTextCountsTextEvents ==
    /\ [](count[1] = count[2])
    /\ [][ \A p \in Passes :
              Handled(p) =>
                  count'[p] = count[p]
                      + (IF event'[p].type = "Text" THEN event'[p].words ELSE 0) ]_vars

\* a pass called with no toggle and a pass called with every toggle have
\* both returned 1 for a text of 2 words, one of them in a link destination
C13_Witness ==
    /\ options = <<OptionsEmpty, OptionsAll>>
    /\ pc = <<"done", "done">>
    /\ count = <<1, 1>>
    /\ raw = <<2, 2>>

----------------------------------------------------------------------------
(* C14: Options::DEFAULT enables exactly IncludeInlineCode, IncludeTables, *)
(* IncludeFootnotes, IncludeBlockHtml and IncludeHeadings, and count(text) *)
(* is count_with_options(text, Options::DEFAULT): a pass called by count   *)
(* drops a Text inside a code block, a blockquote or a metadata block and  *)
(* counts every other Text, those in tables, footnote definitions and      *)
(* headings included.                                                      *)

C14_DefaultOptions ==
    /\ []({ f \in Flags : contains(OptionsDefault, f) }
            = { IncludeInlineCode, IncludeTables, IncludeFootnotes,
                IncludeBlockHtml, IncludeHeadings })
    /\ [][ \A p \in Passes :
              (options[p] = CountOptions /\ Handled(p) /\ event'[p].type = "Text") =>
                  count'[p] = count[p]
                      + (IF \/ state[p].in_code_block
                            \/ open[p] > 0
                            \/ state[p].in_metadata_block
                         THEN 0 ELSE event'[p].words) ]_vars

----------------------------------------------------------------------------
(* C15: Options::all() enables every one of the eight toggles; a pass      *)
(* called with it has allowed_for true in every State it reaches, and its  *)
(* total is the sum of the words of every Text event, every inline-code    *)
(* event and every text token of every Html blob: each event adds exactly  *)
(* those words.                                                            *)

C15_AllCountsEverything ==
    /\ [](\A f \in Flags : contains(OptionsAll, f))
    /\ [](\A p \in Passes :
            options[p] = OptionsAll => allowed_for(state[p], options[p]))
    /\ [][ \A p \in Passes :
              (options[p] = OptionsAll /\ Handled(p)) =>
                  count'[p] = count[p]
                      + (CASE event'[p].type \in { "Text", "Code" } -> event'[p].words
                           [] event'[p].type = "Html" -> SumTextTokens(event'[p].tokens)
                           [] OTHER -> 0) ]_vars

\* a pass called with Options::all() has returned 2: a word counted earlier
\* and the text token of an Html blob, with a code block and a metadata
\* block open
C15_Witness ==
    /\ options[1] = OptionsAll
    /\ pc[1] = "done"
    /\ state[1].in_code_block /\ state[1].in_metadata_block
    /\ event[1] = Ev("Html", "", 0, <<Tok("ElementStart", 0), Tok("Text", 1)>>)
    /\ count[1] = 2

----------------------------------------------------------------------------
(* C16: count("# Heading 1") is 2 with the default options, and is 1 with  *)
(* all toggles disabled.                                                   *)

C16_Heading1TwoAndOne ==
    \A p \in Passes :
        pc[p] = "done" =>
            /\ options[p] = OptionsDefault => count[p] = 2
            /\ options[p] = OptionsEmpty => count[p] = 1

(* C16 as amended: count("# Heading 1") is 2 with the default options, and *)
(* is 0 with all toggles disabled.                                         *)

C16_Heading1TwoAndZero ==
    \A p \in Passes :
        pc[p] = "done" =>
            /\ options[p] = OptionsDefault => count[p] = 2
            /\ options[p] = OptionsEmpty => count[p] = 0

\* the pass over "# Heading 1" called with no toggle has returned 0, the
\* heading closed again
C16_Witness ==
    /\ options[1] = OptionsEmpty
    /\ pc[1] = "done"
    /\ event[1] = Ev("End", "Heading", 0, <<>>)
    /\ state[1] = NewState
    /\ count[1] = 0

----------------------------------------------------------------------------
(* C17: with IncludeBlockquotes disabled every Text event that occurs      *)
(* while at least one blockquote is open, at any nesting depth, is         *)
(* excluded, a Text after the End of an inner blockquote with an outer one *)
(* still open included; once every blockquote is closed (and no other      *)
(* disabled region is open) Text is counted again.  With                   *)
(* IncludeBlockquotes enabled an open blockquote excludes nothing.         *)

C17_OtherRegionsAllow(p) ==
    allowed_for([state[p] EXCEPT !.blockquote_level = 0], options[p])

C17_BlockquoteTextGated ==
    [][ \A p \in Passes :
          (Handled(p) /\ event'[p].type = "Text") =>
              count'[p] = count[p]
                  + (IF /\ open[p] = 0 \/ Enabled(p, IncludeBlockquotes)
                        /\ C17_OtherRegionsAllow(p)
                     THEN event'[p].words ELSE 0) ]_vars

----------------------------------------------------------------------------
(* C18: however the fold splits the documents into batches and in whatever *)
(* order reduce merges the batches' results, the (total, pairs) that main  *)
(* reports has the sum of the documents' counts as total, and pairs holds  *)
(* every document exactly once, each with its own count.                   *)

RECURSIVE SumCounts(_)
SumCounts(S) ==
    IF S = {} THEN 0
    ELSE LET d == CHOOSE x \in S : TRUE
         IN  count[d] + SumCounts(S \ { d })

\* every document folded and the results reduced to one: what report gets
Reported(a) ==
    /\ \A d \in Docs : pc[d] = "folded"
    /\ acc = { a }

C18_FoldReduceTotals ==
    \A a \in acc :
        Reported(a) =>
            /\ a.sum = SumCounts(Docs)
            /\ Len(a.pairs) = Cardinality(Docs)
            /\ \A d \in Docs :
                  \E i \in 1..Len(a.pairs) : a.pairs[i] = <<d, count[d]>>

\* the three documents, with 1, 2 and 0 words, were folded in three batches
\* and reduced to one result with document 3 first: total 3
C18_Witness ==
    /\ count = <<1, 2, 0>>
    /\ Reported([ sum |-> 3, pairs |-> << <<3, 0>>, <<1, 1>>, <<2, 2>> >> ])

----------------------------------------------------------------------------
(* C19: the five boolean flags do not nest: a Start of kind K leaves K's   *)
(* flag true also when it was true already, and one End of kind K leaves   *)
(* it false however many Starts of kind K came before it; a Text event     *)
(* handled while K's flag is false is not gated by K's toggle, an outer    *)
(* region of kind K still being open or not.                               *)

Flag(st, tag) ==
    CASE tag = "CodeBlock" -> st.in_code_block
      [] tag = "MetadataBlock" -> st.in_metadata_block
      [] tag = "FootnoteDefinition" -> st.in_footnote
      [] tag = "Table" -> st.in_table
      [] tag = "Heading" -> st.in_heading

ToggleOf(tag) ==
    CASE tag = "CodeBlock" -> IncludeBlockCode
      [] tag = "MetadataBlock" -> IncludeMetadata
      [] tag = "FootnoteDefinition" -> IncludeFootnotes
      [] tag = "Table" -> IncludeTables
      [] tag = "Heading" -> IncludeHeadings

C19_FlagsDoNotNest ==
    [][ \A p \in Passes :
          Handled(p) =>
              /\ (event'[p].type = "Start" /\ event'[p].tag \in FlagTags)
                    => Flag(state'[p], event'[p].tag)
              /\ (event'[p].type = "End" /\ event'[p].tag \in FlagTags)
                    => ~Flag(state'[p], event'[p].tag)
              /\ event'[p].type = "Text" =>
                    \A K \in FlagTags :
                        ~Flag(state[p], K) =>
                            count'[p] = count[p]
                                + (IF allowed_for(state[p],
                                                  BitOr(options[p], ToggleOf(K)))
                                   THEN event'[p].words ELSE 0) ]_vars

\* a pass called with no toggle counted a two-word Text after the End of an
\* inner footnote definition, the outer footnote definition still open
C19_Witness ==
    /\ options[1] = OptionsEmpty
    /\ open[1] = 1
    /\ state[1] = NewState
    /\ event[1] = Ev("Text", "", 2, <<>>)
    /\ count[1] = 2

----------------------------------------------------------------------------
(* C20: exclusion is scoped to the region and decided in event order: only *)
(* Start and End events move the State, a Start opens its region and an    *)
(* End closes it for the events that follow, and a Text event is dropped   *)
(* exactly when it lies between the Start and the End of a region whose    *)
(* toggle is disabled: Text before the Start and after the End is counted. *)

\* the regions a Text lies in: a flagged kind since its Start, blockquotes
\* while the parser has one open
C20_Regions(st, n) ==
    { K \in FlagTags : Flag(st, K) } \cup (IF n > 0 THEN { "BlockQuote" } ELSE {})

C20_Toggle(K) == IF K = "BlockQuote" THEN IncludeBlockquotes ELSE ToggleOf(K)

C20_ExclusionScoped ==
    [][ \A p \in Passes :
          Handled(p) =>
              /\ event'[p].type \notin { "Start", "End" } => state'[p] = state[p]
              /\ (event'[p].type = "Start" /\ event'[p].tag \in TrackedTags)
                    => event'[p].tag \in C20_Regions(state'[p], open'[p])
              /\ (event'[p].type = "End" /\ event'[p].tag \in FlagTags)
                    => event'[p].tag \notin C20_Regions(state'[p], open'[p])
              /\ event'[p].type = "Text" =>
                    count'[p] = count[p]
                        + (IF \A K \in C20_Regions(state[p], open[p]) :
                                 Enabled(p, C20_Toggle(K))
                           THEN event'[p].words ELSE 0) ]_vars

----------------------------------------------------------------------------
(* C21: on a well-formed event stream, at every step and at every nesting  *)
(* depth, more than 255 open blockquotes included, blockquote_level is the *)
(* number of blockquotes the parser has opened and not closed, and         *)
(* in_blockquote() is true exactly when that number is not 0.              *)

C21_LevelCountsOpenBlockquotes ==
    \A p \in Passes :
        /\ state[p].blockquote_level = open[p]
        /\ in_blockquote(state[p]) <=> open[p] > 0

----------------------------------------------------------------------------
(* C22: when IncludeBlockHtml is enabled and the tokenizer yields an error *)
(* item for an Html blob, the error adds nothing, the text tokens the      *)
(* tokenizer yielded for the blob are counted, and the pass goes on to the *)
(* next event with its State unchanged: the error neither aborts the pass  *)
(* nor discards the total.                                                 *)

HasErr(items) == \E i \in 1..Len(items) : items[i].kind = "Err"

C22_TokenizerErrorSkipped ==
    [][ \A p \in Passes :
          (/\ Handled(p)
           /\ event'[p].type = "Html"
           /\ HasErr(event'[p].tokens)
           /\ Enabled(p, IncludeBlockHtml)) =>
              /\ count'[p] = count[p] + SumTextTokens(event'[p].tokens)
              /\ state'[p] = state[p]
              /\ pc'[p] = "iter" ]_vars

\* a pass with one word counted and a heading open handled a blob for
\* which the tokenizer yielded a one-word text token and then an error: the
\* total is 2, the heading still open, the pass in its loop
C22_Witness ==
    /\ options[1] = OptionsDefault
    /\ event[1] = Ev("Html", "", 0, <<Tok("Text", 1), Tok("Err", 0)>>)
    /\ state[1] = [NewState EXCEPT !.in_heading = TRUE]
    /\ pc[1] = "iter"
    /\ count[1] = 2

\* the flag a command-line toggle stands for
C23_FlagOf(t) ==
    CASE t = "metadata"    -> IncludeMetadata
      [] t = "blockquotes" -> IncludeBlockquotes
      [] t = "headings"    -> IncludeHeadings
      [] t = "footnotes"   -> IncludeFootnotes
      [] t = "tables"      -> IncludeTables
      [] t = "inline_code" -> IncludeInlineCode
      [] t = "block_code"  -> IncludeBlockCode
      [] t = "block_html"  -> IncludeBlockHtml

\* C23: once main has resolved the options, they are Options::all() when
\* --all was given; otherwise they hold a flag exactly when the argument of
\* its toggle is true, and no other bit; with the defaults of the command
\* line they are Options::DEFAULT, the options count() passes.
C23_OptionsFromArgs ==
    pc[1] # "main" =>
        /\ args.all => options[1] = OptionsAll
        /\ ~args.all =>
              /\ \A t \in Toggles :
                    contains(options[1], C23_FlagOf(t)) <=> args[t]
              /\ BitAnd(options[1], OptionsAll) = options[1]
        /\ args = ArgsDefault =>
              /\ options[1] = OptionsDefault
              /\ options[1] = CountOptions

C23_Witness ==
    /\ args = [ ArgsDefault EXCEPT !.block_code = TRUE, !.headings = FALSE ]
    /\ pc[1] = "iter"
    /\ options[1] = BitOr(OptionsDefault - IncludeHeadings, IncludeBlockCode)
    /\ count[1] = 1

\* this process has neither made nor truncated the file at the output path
C24_OutputUntouched == disk.file \in { "absent", "present" }

\* C24: when Paths::resolve has returned InvalidArgs, no input was opened
\* and the output path and its directories are untouched; when it has
\* returned CouldNotOpenFile for reading, the output path and its
\* directories are untouched; when it has returned FileExists, force was
\* false and the file at the output path is there, neither made nor
\* truncated by the call.
C24_ErrorsLeaveOutput ==
    /\ res.result = "InvalidArgs" =>
          /\ args.output = "None" /\ Force(args)
          /\ res.opened = 0
          /\ C24_OutputUntouched /\ ~disk.dirs
    /\ res.result = "CouldNotOpenFileRead" =>
          /\ res.opened < args.files
          /\ C24_OutputUntouched /\ ~disk.dirs
    /\ res.result = "FileExists" =>
          /\ ~Force(args) /\ res.file_exists
          /\ disk.file = "present"

C24_Witness ==
    /\ res.pc = "done"
    /\ res.result = "FileExists"
    /\ res.opened = MaxFiles
    /\ args.force = "false"
    /\ disk = [ file |-> "present", dirs |-> TRUE ]

\* C25: without force, the file at the output path is never truncated by
\* output_buffer, whatever another process creates there and whenever.
C25_NoTruncationWithoutForce ==
    ~Force(args) => disk.file # "truncated"

====
